---- MODULE Spec2Model ----
(***************************************************************************)
(* Model of src/sketch.js: the Flower component (parameters, mesh          *)
(* regeneration, rotation, noise-driven animation) and the part of         *)
(* UIManager / draw() that drives it (sliders, auto-animation toggle,      *)
(* theme toggle, render loop).                                             *)
(*                                                                         *)
(* Numbers.  A JavaScript number is a record [kind, n]: kind "num" is a    *)
(* finite number held in fixed point, kinds "nan", "inf", "ninf" are NaN,  *)
(* +Infinity, -Infinity.  Parameters are in units of 0.0001 (so the        *)
(* regeneration threshold 0.0001 of autoAnimateParams is 1 unit),          *)
(* rotationAngle in units of 0.000001, animationTime in units of 0.001.    *)
(*                                                                         *)
(* Mesh.  Vertex coordinates need exp/sin/cos; a vertex is kept as the     *)
(* term it is computed from: its grid position and the parameter values    *)
(* its coordinates depend on, plus whether its z coordinate is NaN.  A     *)
(* face colour is kept as the radius it is computed from; its r, g, b      *)
(* values (units of 1/255000) are computed for a range of depths.          *)
(*                                                                         *)
(* Specifications.  Spec is the sketch driven through its user interface;  *)
(* ApiSpec is one Flower driven through its methods; CtorSpec is ApiSpec   *)
(* for any grid size passed to the constructor; PairSpec drives two        *)
(* Flowers with the same calls, the rotationSpeed values apart; BlendSpec  *)
(* applies _getBlendedColor to the palette of any colour scheme passed to  *)
(* the constructor.                                                        *)
(***************************************************************************)
EXTENDS Integers, Sequences, FiniteSets, TLC

VARIABLES
    config,          \* Flower.config: [rows, cols]
    params,          \* Flower.params (contents of the object)
    faces,           \* Flower.faces
    rotationAngle,   \* Flower.rotationAngle
    currentParams,   \* UIManager.currentParams (contents of the object)
    aliased,         \* UIManager.currentParams and Flower.params are one object
    sliderValue,     \* slider.value of each range input
    isAutoAnimating, \* UIManager.isAutoAnimating
    animationTime,   \* UIManager.animationTime
    isLight,         \* body has class theme--light
    steps,           \* number of frames / method calls so far (bounds the run)
    inputs,          \* number of slider input events so far (bounds the run)
    lastOp,          \* what the last operation did (history)
    ticks,           \* calls of autoAnimateParams since auto-animation was last
                     \* switched on (history)
    params2,         \* Flower.params of a second Flower, given the same calls
    faces2           \* Flower.faces of that second Flower

vars == <<config, params, faces, rotationAngle, currentParams, aliased,
          sliderValue, isAutoAnimating, animationTime, isLight, steps, inputs, lastOp,
          ticks, params2, faces2>>

flowerVars == <<config, params, faces, rotationAngle>>
uiVars == <<currentParams, aliased, sliderValue, isAutoAnimating, animationTime, isLight>>
pairVars == <<params2, faces2>>

----------------------------------------------------------------------------
(* Bounds of the model *)

\* FLOWER_CONFIG.rows and FLOWER_CONFIG.cols (6 and 80 in AppConfig), scaled down
GridRows == 2
GridCols == 2
\* frames drawn in one run of the user interface
MaxSteps == 2
\* slider input events in one run of the user interface
MaxInputs == 1
\* Flower methods called in one run of the Flower driven directly
MaxCalls == 3

----------------------------------------------------------------------------
(* JavaScript numbers *)

Num(n) == [kind |-> "num", n |-> n]
NaN == [kind |-> "nan", n |-> 0]
PosInf == [kind |-> "inf", n |-> 0]
NegInf == [kind |-> "ninf", n |-> 0]
\* placeholder for "this coordinate does not depend on that parameter"
Ignored == [kind |-> "none", n |-> 0]

IsNum(v) == v.kind = "num"
IsNaNValue(v) == v.kind = "nan"

\* a !== b on numbers: NaN differs from everything, itself included
StrictNotEqual(a, b) == IsNaNValue(a) \/ IsNaNValue(b) \/ a # b

\* isNaN(parseFloat(v)) for a number v: parseFloat keeps Infinity
IsNaNParseFloat(v) == IsNaNValue(v)

\* n / d rounded to the nearest integer
RoundDiv(n, d) == IF n >= 0 THEN (2 * n + d) \div (2 * d)
                  ELSE -((2 * (-n) + d) \div (2 * d))

Abs(n) == IF n >= 0 THEN n ELSE -n

----------------------------------------------------------------------------
(* AppConfig *)

ParamOrder == <<"opening", "density", "align", "curve1", "curve2", "rotationSpeed">>
ParamKeys == {ParamOrder[i] : i \in 1..Len(ParamOrder)}

INITIAL_PARAMS ==
    [opening |-> Num(8000), density |-> Num(55000), align |-> Num(32000),
     curve1 |-> Num(-7000), curve2 |-> Num(9000), rotationSpeed |-> Num(100)]

SLIDER_DEFINITIONS ==
    << [param |-> "opening",       min |-> 5000,  max |-> 13000,  step |-> 100],
       [param |-> "density",       min |-> 10000, max |-> 200000, step |-> 1000],
       [param |-> "align",         min |-> 0,     max |-> 60000,  step |-> 100],
       [param |-> "curve1",        min |-> -7000, max |-> 21000,  step |-> 500],
       [param |-> "curve2",        min |-> 0,     max |-> 15000,  step |-> 100],
       [param |-> "rotationSpeed", min |-> -5000, max |-> 5000,   step |-> 100] >>

\* SLIDER_DEFINITIONS.find(def => def.param === paramName)
SliderDef(k) == CHOOSE d \in {SLIDER_DEFINITIONS[i] : i \in 1..Len(SLIDER_DEFINITIONS)} :
                    d.param = k

\* AUTO_ANIMATION.LERP_FACTOR, in percent
LERP_FACTOR == 2
\* AUTO_ANIMATION.PERLIN_NOISE_SPEED, in units of 0.001
PERLIN_NOISE_SPEED == 3
\* the factor 0.02 of display(): rotationSpeed (0.0001) * 0.02, in units of 0.000001
ROTATION_FACTOR == 2
\* the threshold 0.0001 of autoAnimateParams
REGEN_EPSILON == 1

----------------------------------------------------------------------------
(* p5 helpers on JavaScript numbers *)

\* p.map(noiseVal, 0, 1, minVal, maxVal), noiseVal in thousandths
MapNoise(noiseVal, minVal, maxVal) == minVal + RoundDiv(noiseVal * (maxVal - minVal), 1000)

\* lerp with start and stop exchanged
Lerp_Swapped(start, stop, amtPct) ==
    IF IsNum(start) THEN Num(stop + RoundDiv(amtPct * (start.n - stop), 100))
    ELSE NaN

\* p.lerp(start, stop, amt) = amt * (stop - start) + start, stop finite
Lerp(start, stop, amtPct) ==
    IF IsNum(start) THEN Num(start.n + RoundDiv(amtPct * (stop - start.n), 100))
    ELSE NaN   \* NaN stays NaN; amt * (stop - Infinity) + Infinity is NaN

\* p.constrain(n, low, high) = Math.max(Math.min(n, high), low)
Constrain(v, low, high) ==
    CASE IsNum(v) -> Num(IF v.n > high THEN (IF high < low THEN low ELSE high)
                         ELSE IF v.n < low THEN low ELSE v.n)
      [] v.kind = "inf" -> Num(IF high < low THEN low ELSE high)
      [] v.kind = "ninf" -> Num(low)
      [] OTHER -> NaN

\* Math.abs(a - b) > 0.0001
ChangedEnough(a, b) ==
    CASE IsNum(a) /\ IsNum(b) -> Abs(a.n - b.n) > REGEN_EPSILON
      [] IsNaNValue(a) \/ IsNaNValue(b) -> FALSE
      [] a = b -> FALSE          \* Infinity - Infinity is NaN
      [] OTHER -> TRUE           \* the difference is infinite

----------------------------------------------------------------------------
(* Flower: geometry *)

Infinite(v) == v.kind \in {"inf", "ninf"}

\* _calculatePhi: (180 / opening) * exp(-thetaIdx * thetaDelta / (density * 180)).
\* Only whether the result is finite, infinite or NaN is kept: density 0 makes
\* the exponent -0/0 = NaN in column 0 and -Infinity in the other columns,
\* opening 0 makes the quotient infinite.
_calculatePhi(thetaIdx, p) ==
    IF IsNaNValue(p.opening) \/ IsNaNValue(p.density) THEN "nan"
    ELSE IF p.density = Num(0)
    THEN (IF thetaIdx = 0 \/ p.opening = Num(0) THEN "nan" ELSE "fin")
    ELSE (IF p.opening = Num(0) THEN "inf" ELSE "fin")

\* _calculatePetalShape: (align * thetaIdx * thetaDelta % 360) is NaN for an
\* infinite align (Infinity * 0, Infinity % 360)
_calculatePetalShape(thetaIdx, p) ==
    IF Infinite(p.align) \/ IsNaNValue(p.align) THEN "nan" ELSE "fin"

\* _calculateCurvature: curve1 * r^2 * (curve2 * r - 1)^2 * sin(radians(phi));
\* sin of a non-finite phi is NaN, an infinite curve1 or curve2 gives
\* Infinity * 0 = NaN in row 0 and a non-finite product elsewhere
_calculateCurvature(r, phi, p) ==
    IF phi # "fin" \/ ~IsNum(p.curve1) \/ ~IsNum(p.curve2) THEN "nan" ELSE "fin"

\* _calculate3DPosition: the vertex as the term it is computed from.  Row 0
\* has normalizedRadius 0 and hangDown 0, hence is the origin; column 0 has
\* thetaIdx 0, hence phi = 180/opening and petalCut = 0.5 whatever density and
\* align are; curve2 only acts through curve1.  `return { x, y, z }` allocates
\* a new object on every call; obj is the identity of that object within the
\* regeneration that made the call (one call per grid position).
_calculate3DPosition(r, thetaIdx, phi, hangDown, petalCut, p) ==
    LET bad == phi # "fin" \/ hangDown # "fin" \/ petalCut # "fin"
        origin == ~bad /\ r = 0
    IN [obj |-> <<r, thetaIdx>>, row |-> r, col |-> thetaIdx, zNaN |-> bad,
        opening |-> IF origin THEN Ignored ELSE p.opening,
        density |-> IF origin \/ thetaIdx = 0 THEN Ignored ELSE p.density,
        align   |-> IF origin \/ thetaIdx = 0 THEN Ignored ELSE p.align,
        curve1  |-> IF origin THEN Ignored ELSE p.curve1,
        curve2  |-> IF origin \/ p.curve1 = Num(0) THEN Ignored ELSE p.curve2]

\* the first pair of loops of regenerateGeometry: verticesGrid[r][thetaIdx]
VerticesGrid(p, cfg) ==
    [r \in 0..cfg.rows |->
        [thetaIdx \in 0..cfg.cols |->
            LET phi == _calculatePhi(thetaIdx, p)
                petalCut == _calculatePetalShape(thetaIdx, p)
                hangDown == _calculateCurvature(r, phi, p)
            IN _calculate3DPosition(r, thetaIdx, phi, hangDown, petalCut, p)]]

\* _getBlendedColor: a NaN z makes colorPosition, colorIndex NaN, palette[NaN]
\* undefined and "c1.r" a TypeError; otherwise a colour of the palette blend.
\* faceInfo.radius2 is normalizedRadius in units of radiusDelta / 2.  The
\* colour is kept as the term it is computed from; ColorValues gives the
\* values the term can take.
_getBlendedColor(faceInfo) ==
    [threw |-> faceInfo.zNaN, color |-> [radius2 |-> faceInfo.radius2]]

\* AppConfig.COLOR_SCHEME, each colour as its six hexadecimal digits
COLOR_SCHEME ==
    << <<15, 15, 13, 2, 0, 0>>, <<15, 15, 7, 1, 9, 2>>, <<15, 15, 0, 0, 6, 6>> >>

\* Utils.hexToRgb: parseInt of the three digit pairs
hexToRgb(hex) ==
    [r |-> 16 * hex[1] + hex[2], g |-> 16 * hex[3] + hex[4], b |-> 16 * hex[5] + hex[6]]

\* colour components are held in units of 1/255000, so that a blend of two
\* palette colours by a factor in thousandths is exact
ColorUnit == 255000

\* this.palette = this.colorScheme.map(...):
\* { r: rgb.r / 255, g: rgb.g / 255, b: rgb.b / 255 }
PaletteOf(colorScheme) ==
    [i \in 1..Len(colorScheme) |->
        LET rgb == hexToRgb(colorScheme[i])
        IN [r |-> RoundDiv(rgb.r * ColorUnit, 255),
            g |-> RoundDiv(rgb.g * ColorUnit, 255),
            b |-> RoundDiv(rgb.b * ColorUnit, 255)]]

\* the palette with a division by 128 in place of the division by 255
palette_DividedBy128 ==
    [i \in 1..Len(COLOR_SCHEME) |->
        LET rgb == hexToRgb(COLOR_SCHEME[i])
        IN [r |-> RoundDiv(rgb.r * ColorUnit, 128),
            g |-> RoundDiv(rgb.g * ColorUnit, 128),
            b |-> RoundDiv(rgb.b * ColorUnit, 128)]]

\* this.palette of the sketch's Flower, constructed with AppConfig.COLOR_SCHEME
palette ==
    PaletteOf(COLOR_SCHEME)

\* Utils.easeInOutCubic, argument and result in thousandths
easeInOutCubic(t) ==
    IF t < 500 THEN RoundDiv(4 * t * t * t, 1000000)
    ELSE 1000 - RoundDiv((2000 - 2 * t) * (2000 - 2 * t) * (2000 - 2 * t), 2000000)

\* p.map(faceInfo.z, -0.8 * flowerSize, 0.8 * flowerSize, 0, 1, true) for the
\* finite values of z, in thousandths
DepthFactors == {0, 250, 500, 750, 1000}

\* colorPosition = 0.6 * radiusFactor + 0.4 * depthFactor, in thousandths
ColorPosition(radiusFactor, depthFactor) ==
    RoundDiv(600 * radiusFactor + 400 * depthFactor, 1000)

\* _getBlendedColor without the constrain(colorPosition, 0, 0.999)
BlendedColorOf_NoClamp(pal, radiusFactor, depthFactor) ==
    LET weighted == ColorPosition(radiusFactor, depthFactor)
        colorPosition == easeInOutCubic(IF weighted > 1000 THEN 1000
                                        ELSE IF weighted < 0 THEN 0 ELSE weighted)
        mappedPosition == colorPosition * (Len(pal) - 1)
        colorIndex == mappedPosition \div 1000
        nextColorIndex == IF colorIndex + 1 < Len(pal) - 1
                          THEN colorIndex + 1 ELSE Len(pal) - 1
        blendFactor == mappedPosition - 1000 * colorIndex
        c1 == pal[colorIndex + 1]
        c2 == pal[nextColorIndex + 1]
    IN [r |-> c1.r + RoundDiv(blendFactor * (c2.r - c1.r), 1000),
        g |-> c1.g + RoundDiv(blendFactor * (c2.g - c1.g), 1000),
        b |-> c1.b + RoundDiv(blendFactor * (c2.b - c1.b), 1000)]

\* _getBlendedColor for a finite z: the colour returned by a Flower whose
\* palette is pal, for faceInfo.normalizedRadius = radiusFactor and the depth
\* factor of faceInfo.z (both in thousandths)
BlendedColorOf(pal, radiusFactor, depthFactor) ==
    LET weighted == ColorPosition(radiusFactor, depthFactor)
        eased == easeInOutCubic(IF weighted > 1000 THEN 1000
                                ELSE IF weighted < 0 THEN 0 ELSE weighted)
        colorPosition == IF eased > 999 THEN 999 ELSE IF eased < 0 THEN 0 ELSE eased
        mappedPosition == colorPosition * (Len(pal) - 1)
        colorIndex == mappedPosition \div 1000
        nextColorIndex == IF colorIndex + 1 < Len(pal) - 1
                          THEN colorIndex + 1 ELSE Len(pal) - 1
        blendFactor == mappedPosition - 1000 * colorIndex
        c1 == pal[colorIndex + 1]
        c2 == pal[nextColorIndex + 1]
    IN [r |-> c1.r + RoundDiv(blendFactor * (c2.r - c1.r), 1000),
        g |-> c1.g + RoundDiv(blendFactor * (c2.g - c1.g), 1000),
        b |-> c1.b + RoundDiv(blendFactor * (c2.b - c1.b), 1000)]

\* the colour _getBlendedColor returns for a face of the given
\* normalizedRadius (in units of radiusDelta / 2) and depth factor
BlendedColor(radius2, rows, depthFactor) ==
    BlendedColorOf(palette, RoundDiv(1000 * radius2, 2 * rows), depthFactor)

\* the values the colour of a face can have, over the depth of the face
ColorValues(color, cfg) ==
    {BlendedColor(color.radius2, cfg.rows, depthFactor) : depthFactor \in DepthFactors}

\* the second pair of loops of regenerateGeometry, from cell (r, thetaIdx) on;
\* acc is this.faces so far.  A throw leaves this.faces as built so far.
RECURSIVE FaceLoop(_, _, _, _, _)
FaceLoop(grid, cfg, r, thetaIdx, acc) ==
    IF r >= cfg.rows THEN [faces |-> acc, threw |-> FALSE]
    ELSE IF thetaIdx >= cfg.cols THEN FaceLoop(grid, cfg, r + 1, 0, acc)
    ELSE
      LET v1 == grid[r][thetaIdx]
          v2 == grid[r][thetaIdx + 1]
          v3 == grid[r + 1][thetaIdx + 1]
          v4 == grid[r + 1][thetaIdx]
          faceInfo1 == [radius2 |-> 2 * r, zNaN |-> v1.zNaN \/ v2.zNaN \/ v4.zNaN]
          faceInfo2 == [radius2 |-> 2 * r + 1, zNaN |-> v2.zNaN \/ v3.zNaN \/ v4.zNaN]
          color1 == _getBlendedColor(faceInfo1)
          color2 == _getBlendedColor(faceInfo2)
      IN IF color1.threw \/ color2.threw THEN [faces |-> acc, threw |-> TRUE]
         ELSE FaceLoop(grid, cfg, r, thetaIdx + 1,
                Append(Append(acc, [v1 |-> v1, v2 |-> v2, v3 |-> v4, color |-> color1.color]),
                       [v1 |-> v2, v2 |-> v3, v3 |-> v4, color |-> color2.color]))

\* regenerateGeometry pushing the two triangles of each cell in the other order
regenerateGeometry_SwappedTriangles(p, f, cfg) ==
    IF \E k \in DOMAIN p : IsNaNParseFloat(p[k])
    THEN [faces |-> f, warned |-> TRUE, threw |-> FALSE]
    ELSE LET built == FaceLoop(VerticesGrid(p, cfg), cfg, 0, 0, <<>>)
         IN [faces |-> [i \in 1..Len(built.faces) |->
                           built.faces[IF i % 2 = 1 THEN i + 1 ELSE i - 1]],
             warned |-> FALSE, threw |-> built.threw]

\* regenerateGeometry without its parameter validation
regenerateGeometry_NoValidation(p, f, cfg) ==
    LET built == FaceLoop(VerticesGrid(p, cfg), cfg, 0, 0, <<>>)
    IN [faces |-> built.faces, warned |-> FALSE, threw |-> built.threw]

\* regenerateGeometry: result [faces, warned, threw]
regenerateGeometry(p, f, cfg) ==
    IF \E k \in DOMAIN p : IsNaNParseFloat(p[k])
    THEN [faces |-> f, warned |-> TRUE, threw |-> FALSE]
    ELSE LET built == FaceLoop(VerticesGrid(p, cfg), cfg, 0, 0, <<>>)
         IN [faces |-> built.faces, warned |-> FALSE, threw |-> built.threw]

\* the mesh of parameters p: what a regeneration that completes builds
Mesh(p, cfg) == FaceLoop(VerticesGrid(p, cfg), cfg, 0, 0, <<>>).faces

\* the parameters a face list was generated from, read off the vertex
\* verticesGrid[rows][cols] that its last face holds (rotationSpeed and, when
\* curve1 is 0, curve2 play no part in a vertex)
MeshSource(f) ==
    LET v == f[Len(f)].v2
    IN [opening |-> v.opening, density |-> v.density, align |-> v.align,
        curve1 |-> v.curve1,
        curve2 |-> IF v.curve2 = Ignored THEN Num(0) ELSE v.curve2,
        rotationSpeed |-> Num(0)]

\* f is all the faces of one regeneration: 2 x rows x cols faces over one
\* vertex grid
IsCompleteMesh(f, cfg) ==
    /\ Len(f) = 2 * cfg.rows * cfg.cols
    /\ Len(f) > 0
    /\ f = Mesh(MeshSource(f), cfg)

----------------------------------------------------------------------------
(* Flower: parameters *)

\* updateParams regenerating inside the loop, once per changed shape key
updateParams_RegenPerKey(p, f, cfg, newParams) ==
    LET changed == {k \in DOMAIN newParams \cap DOMAIN p : StrictNotEqual(p[k], newParams[k])}
        merged == [k \in DOMAIN p |-> IF k \in changed THEN newParams[k] ELSE p[k]]
        regen == regenerateGeometry(merged, f, cfg)
        n == Cardinality(changed \ {"rotationSpeed"})
    IN IF n > 0
       THEN [params |-> merged, faces |-> regen.faces, regenCalls |-> n,
             warned |-> regen.warned, threw |-> regen.threw]
       ELSE [params |-> merged, faces |-> f, regenCalls |-> 0,
             warned |-> FALSE, threw |-> FALSE]

\* updateParams without the exception for rotationSpeed
updateParams_RegenOnRotation(p, f, cfg, newParams) ==
    LET changed == {k \in DOMAIN newParams \cap DOMAIN p : StrictNotEqual(p[k], newParams[k])}
        merged == [k \in DOMAIN p |-> IF k \in changed THEN newParams[k] ELSE p[k]]
        regen == regenerateGeometry(merged, f, cfg)
    IN IF changed # {}
       THEN [params |-> merged, faces |-> regen.faces, regenCalls |-> 1,
             warned |-> regen.warned, threw |-> regen.threw]
       ELSE [params |-> merged, faces |-> f, regenCalls |-> 0,
             warned |-> FALSE, threw |-> FALSE]

\* updateParams putting the old parameters back when the regeneration it
\* asked for was refused
updateParams_Rollback(p, f, cfg, newParams) ==
    LET changed == {k \in DOMAIN newParams \cap DOMAIN p : StrictNotEqual(p[k], newParams[k])}
        merged == [k \in DOMAIN p |-> IF k \in changed THEN newParams[k] ELSE p[k]]
        needsRegeneration == \E k \in changed : k # "rotationSpeed"
        regen == regenerateGeometry(merged, f, cfg)
    IN IF needsRegeneration
       THEN [params |-> IF regen.warned THEN p ELSE merged, faces |-> regen.faces,
             regenCalls |-> 1, warned |-> regen.warned, threw |-> regen.threw]
       ELSE [params |-> merged, faces |-> f, regenCalls |-> 0,
             warned |-> FALSE, threw |-> FALSE]

\* updateParams without the hasOwnProperty test: every key of newParams is stored
updateParams_AddsKeys(p, f, cfg, newParams) ==
    LET changed == {k \in DOMAIN newParams :
                       k \notin DOMAIN p \/ StrictNotEqual(p[k], newParams[k])}
        merged == [k \in DOMAIN p \cup DOMAIN newParams |->
                      IF k \in changed THEN newParams[k] ELSE p[k]]
        needsRegeneration == \E k \in changed : k # "rotationSpeed"
        regen == regenerateGeometry(merged, f, cfg)
    IN IF needsRegeneration
       THEN [params |-> merged, faces |-> regen.faces, regenCalls |-> 1,
             warned |-> regen.warned, threw |-> regen.threw]
       ELSE [params |-> merged, faces |-> f, regenCalls |-> 0,
             warned |-> FALSE, threw |-> FALSE]

\* updateParams(newParams): result [params, faces, regenCalls, warned, threw];
\* regenCalls is the number of calls of regenerateGeometry
updateParams(p, f, cfg, newParams) ==
    LET changed == {k \in DOMAIN newParams \cap DOMAIN p : StrictNotEqual(p[k], newParams[k])}
        merged == [k \in DOMAIN p |-> IF k \in changed THEN newParams[k] ELSE p[k]]
        needsRegeneration == \E k \in changed : k # "rotationSpeed"
        regen == regenerateGeometry(merged, f, cfg)
    IN IF needsRegeneration
       THEN [params |-> merged, faces |-> regen.faces, regenCalls |-> 1,
             warned |-> regen.warned, threw |-> regen.threw]
       ELSE [params |-> merged, faces |-> f, regenCalls |-> 0,
             warned |-> FALSE, threw |-> FALSE]

\* the new value autoAnimateParams computes for one parameter
AnimatedValue(p, k, noiseVal) ==
    LET sliderDef == SliderDef(k)
        targetValue == MapNoise(noiseVal, sliderDef.min, sliderDef.max)
    IN Constrain(Lerp(p[k], targetValue, LERP_FACTOR), sliderDef.min, sliderDef.max)

\* autoAnimateParams without the exception for rotationSpeed
autoAnimateParams_RegenOnRotation(p, f, cfg, noise) ==
    LET newParams == [k \in DOMAIN p |->
                        IF k \in ParamKeys THEN AnimatedValue(p, k, noise[k]) ELSE p[k]]
        needsRegeneration == \E k \in ParamKeys \cap DOMAIN p :
                                ChangedEnough(p[k], newParams[k])
        regen == regenerateGeometry(newParams, f, cfg)
    IN IF needsRegeneration
       THEN [params |-> newParams, faces |-> regen.faces, regenCalls |-> 1,
             warned |-> regen.warned, threw |-> regen.threw, returned |-> newParams]
       ELSE [params |-> newParams, faces |-> f, regenCalls |-> 0,
             warned |-> FALSE, threw |-> FALSE, returned |-> newParams]

\* autoAnimateParams comparing the new values with the values the face list
\* was generated from
autoAnimateParams_ComparesWithMesh(p, f, cfg, noise) ==
    LET newParams == [k \in DOMAIN p |->
                        IF k \in ParamKeys THEN AnimatedValue(p, k, noise[k]) ELSE p[k]]
        built == IF Len(f) > 0 THEN MeshSource(f) ELSE p
        needsRegeneration == \E k \in ParamKeys \cap DOMAIN p :
                                k # "rotationSpeed" /\ ChangedEnough(built[k], newParams[k])
        regen == regenerateGeometry(newParams, f, cfg)
    IN IF needsRegeneration
       THEN [params |-> newParams, faces |-> regen.faces, regenCalls |-> 1,
             warned |-> regen.warned, threw |-> regen.threw, returned |-> newParams]
       ELSE [params |-> newParams, faces |-> f, regenCalls |-> 0,
             warned |-> FALSE, threw |-> FALSE, returned |-> newParams]

\* autoAnimateParams returning the parameters it found
autoAnimateParams_ReturnsOld(p, f, cfg, noise) ==
    LET newParams == [k \in DOMAIN p |->
                        IF k \in ParamKeys THEN AnimatedValue(p, k, noise[k]) ELSE p[k]]
        needsRegeneration == \E k \in ParamKeys \cap DOMAIN p :
                                k # "rotationSpeed" /\ ChangedEnough(p[k], newParams[k])
        regen == regenerateGeometry(newParams, f, cfg)
    IN IF needsRegeneration
       THEN [params |-> newParams, faces |-> regen.faces, regenCalls |-> 1,
             warned |-> regen.warned, threw |-> regen.threw, returned |-> p]
       ELSE [params |-> newParams, faces |-> f, regenCalls |-> 0,
             warned |-> FALSE, threw |-> FALSE, returned |-> p]

\* autoAnimateParams(time): noise[k] is p.noise(time + index * offset) in
\* thousandths.  Result [params, faces, regenCalls, warned, threw, returned];
\* returned is the object handed back when nothing was thrown.
autoAnimateParams(p, f, cfg, noise) ==
    LET newParams == [k \in DOMAIN p |->
                        IF k \in ParamKeys THEN AnimatedValue(p, k, noise[k]) ELSE p[k]]
        needsRegeneration == \E k \in ParamKeys \cap DOMAIN p :
                                k # "rotationSpeed" /\ ChangedEnough(p[k], newParams[k])
        regen == regenerateGeometry(newParams, f, cfg)
    IN IF needsRegeneration
       THEN [params |-> newParams, faces |-> regen.faces, regenCalls |-> 1,
             warned |-> regen.warned, threw |-> regen.threw, returned |-> newParams]
       ELSE [params |-> newParams, faces |-> f, regenCalls |-> 0,
             warned |-> FALSE, threw |-> FALSE, returned |-> newParams]

\* a + b on JavaScript numbers, b finite or not
JsAdd(a, b) ==
    CASE IsNaNValue(a) \/ IsNaNValue(b) -> NaN
      [] IsNum(a) /\ IsNum(b) -> Num(a.n + b.n)
      [] IsNum(a) -> b
      [] IsNum(b) -> a
      [] a = b -> a
      [] OTHER -> NaN

\* rotationSpeed * 0.02
RotationStep(rotationSpeed) ==
    IF IsNum(rotationSpeed) THEN Num(rotationSpeed.n * ROTATION_FACTOR) ELSE rotationSpeed

\* display() turning the other way: rotationAngle -= rotationSpeed * 0.02
display_Reversed(angle, p) ==
    IF StrictNotEqual(p.rotationSpeed, Num(0))
    THEN JsAdd(angle, RotationStep(IF IsNum(p.rotationSpeed)
                                   THEN Num(-p.rotationSpeed.n) ELSE p.rotationSpeed))
    ELSE angle

\* display() adding rotationSpeed itself, without the factor 0.02
display_NoFactor(angle, p) ==
    IF StrictNotEqual(p.rotationSpeed, Num(0))
    THEN JsAdd(angle, p.rotationSpeed)
    ELSE angle

\* display(): the new rotationAngle
display(angle, p) ==
    IF StrictNotEqual(p.rotationSpeed, Num(0))
    THEN JsAdd(angle, RotationStep(p.rotationSpeed))
    ELSE angle

----------------------------------------------------------------------------
(* Inputs *)

\* noise samples, in thousandths of the range [0, 1]
NoiseVals == {0, 500, 1000}

\* p.noise(time + index * PERLIN_OFFSET_MULTIPLIER) for the six parameters
NoiseFields ==
    {[k \in ParamKeys |-> v] : v \in NoiseVals \ {500}}
    \cup {[opening |-> 1000, density |-> 0, align |-> 500,
           curve1 |-> 0, curve2 |-> 1000, rotationSpeed |-> 500]}

\* the noise fields for a Flower driven directly: those, and one whose noise
\* 0.625 for opening gives the target 0.5 + 0.625 x 0.8 = 1.0
ApiNoiseFields ==
    NoiseFields \cup {[opening |-> 625, density |-> 500, align |-> 500,
                       curve1 |-> 500, curve2 |-> 500, rotationSpeed |-> 500]}

\* positions a user can drag a slider to
SliderKeys == {"opening", "curve1", "rotationSpeed"}
SliderChoices(k) == {SliderDef(k).min, SliderDef(k).max}

\* argument objects a caller can pass to Flower.updateParams: in-range,
\* out-of-range, zero and non-finite values, one or several keys, a key
\* the parameters do not have, and shape values at (opening: 0.004 below)
\* the targets of the mixed noise field
ApiNewParams ==
    {[opening |-> Num(13000)], [opening |-> INITIAL_PARAMS.opening],
     [opening |-> Num(14000)], [opening |-> Num(0)],
     [opening |-> NaN], [opening |-> PosInf],
     [density |-> Num(0)], [align |-> Num(0)], [align |-> NegInf],
     [rotationSpeed |-> Num(0)], [rotationSpeed |-> NaN],
     [rotationSpeed |-> Num(5000), opening |-> Num(13000)],
     [curve1 |-> Num(0), curve2 |-> Num(15000)],
     [petals |-> Num(5), curve1 |-> Num(0)],
     [opening |-> Num(12960), density |-> Num(10000), align |-> Num(30000),
      curve1 |-> Num(-7000), curve2 |-> Num(15000)]}

----------------------------------------------------------------------------
(* Construction *)

\* new Flower(p, config, initialParams, colorScheme): this.faces = [] and
\* then regenerateGeometry()
FlowerConstructor(cfg, initialParams) ==
    [params |-> initialParams,
     faces |-> regenerateGeometry(initialParams, <<>>, cfg).faces,
     rotationAngle |-> Num(0),
     threw |-> regenerateGeometry(initialParams, <<>>, cfg).threw]

NoOp == [op |-> "construct", key |-> "", np |-> <<>>, regenCalls |-> 1,
         warned |-> FALSE, threw |-> FALSE, ignored |-> FALSE]

\* setup(): new Flower(..., INITIAL_PARAMS, ...) then new UIManager(...)
Init ==
    /\ config = [rows |-> GridRows, cols |-> GridCols]
    /\ LET flower == FlowerConstructor(config, INITIAL_PARAMS)
       IN /\ params = flower.params
          /\ faces = flower.faces
          /\ rotationAngle = flower.rotationAngle
    /\ currentParams = INITIAL_PARAMS
    /\ aliased = FALSE
    /\ sliderValue = INITIAL_PARAMS
    /\ isAutoAnimating = FALSE
    /\ animationTime = 0
    /\ isLight = FALSE
    /\ steps = 0
    /\ inputs = 0
    /\ lastOp = NoOp
    /\ ticks = 0
    /\ params2 = params
    /\ faces2 = faces

----------------------------------------------------------------------------
(* UIManager *)

\* the value a range input holds after "slider.value = v": clamped to
\* [min, max] and moved to the nearest step from min
SliderSanitize(def, v) ==
    LET clamped == IF v.n < def.min THEN def.min ELSE IF v.n > def.max THEN def.max ELSE v.n
        snapped == def.min + ((2 * (clamped - def.min) + def.step) \div (2 * def.step)) * def.step
    IN Num(IF snapped > def.max THEN snapped - def.step ELSE snapped)

\* the slider 'input' listener without "this.currentParams[def.param] = newValue"
SliderListener_FlowerOnly(k, v, auto) ==
    IF auto
    THEN [ignored |-> TRUE, sliderValue |-> sliderValue, currentParams |-> currentParams,
          flower |-> [params |-> params, faces |-> faces, regenCalls |-> 0,
                      warned |-> FALSE, threw |-> FALSE]]
    ELSE LET newValue == Num(v)
         IN [ignored |-> FALSE,
             sliderValue |-> [sliderValue EXCEPT ![k] = newValue],
             currentParams |-> currentParams,
             flower |-> updateParams(params, faces, config, [x \in {k} |-> newValue])]

\* the slider 'input' listener without its isAutoAnimating guard
SliderListener_NoGuard(k, v, auto) ==
    LET newValue == Num(v)
        held == IF aliased THEN [params EXCEPT ![k] = newValue] ELSE params
    IN [ignored |-> FALSE,
        sliderValue |-> [sliderValue EXCEPT ![k] = newValue],
        currentParams |-> [currentParams EXCEPT ![k] = newValue],
        flower |-> updateParams(held, faces, config, [x \in {k} |-> newValue])]

\* the slider 'input' listener of _createSliders; the user moved slider k to v.
\* Result: what the listener leaves in sliderValue, currentParams and the Flower.
SliderListener(k, v, auto) ==
    IF auto
    THEN [ignored |-> TRUE, sliderValue |-> sliderValue, currentParams |-> currentParams,
          flower |-> [params |-> params, faces |-> faces, regenCalls |-> 0,
                      warned |-> FALSE, threw |-> FALSE]]
    ELSE LET newValue == Num(v)
             \* this.currentParams[def.param] = newValue writes Flower.params
             \* too when both are the same object
             held == IF aliased THEN [params EXCEPT ![k] = newValue] ELSE params
         IN [ignored |-> FALSE,
             sliderValue |-> [sliderValue EXCEPT ![k] = newValue],
             currentParams |-> [currentParams EXCEPT ![k] = newValue],
             flower |-> updateParams(held, faces, config, [x \in {k} |-> newValue])]

SliderInput(k, v) ==
    \E r \in {SliderListener(k, v, isAutoAnimating)} :
       /\ inputs < MaxInputs
       /\ inputs' = inputs + 1
       /\ sliderValue' = r.sliderValue
       /\ currentParams' = r.currentParams
       /\ params' = r.flower.params
       /\ faces' = r.flower.faces
       /\ lastOp' = [op |-> "sliderInput", key |-> k, np |-> <<>>,
                     regenCalls |-> r.flower.regenCalls, warned |-> r.flower.warned,
                     threw |-> r.flower.threw, ignored |-> r.ignored]
       /\ UNCHANGED <<config, rotationAngle, aliased, isAutoAnimating, animationTime,
                      isLight, steps, ticks, pairVars>>

\* switching on without "this.animationTime = 0"
ToggleAutoOn_NoReset ==
    /\ ~isAutoAnimating
    /\ isAutoAnimating' = TRUE
    /\ ticks' = 0
    /\ lastOp' = [op |-> "autoOn", key |-> "", np |-> <<>>, regenCalls |-> 0,
                  warned |-> FALSE, threw |-> FALSE, ignored |-> FALSE]
    /\ UNCHANGED <<flowerVars, currentParams, aliased, sliderValue, animationTime, isLight,
                   steps, inputs, pairVars>>

\* switching on that also starts the rotation afresh
ToggleAutoOn_ResetsRotation ==
    /\ ~isAutoAnimating
    /\ isAutoAnimating' = TRUE
    /\ animationTime' = 0
    /\ ticks' = 0
    /\ rotationAngle' = Num(0)
    /\ lastOp' = [op |-> "autoOn", key |-> "", np |-> <<>>, regenCalls |-> 0,
                  warned |-> FALSE, threw |-> FALSE, ignored |-> FALSE]
    /\ UNCHANGED <<config, params, faces, currentParams, aliased, sliderValue, isLight,
                   steps, inputs, pairVars>>

\* the checkbox 'change' listener of _createAutoAnimationToggle, switching on
ToggleAutoOn ==
    /\ ~isAutoAnimating
    /\ isAutoAnimating' = TRUE
    /\ animationTime' = 0
    /\ ticks' = 0
    /\ lastOp' = [op |-> "autoOn", key |-> "", np |-> <<>>, regenCalls |-> 0,
                  warned |-> FALSE, threw |-> FALSE, ignored |-> FALSE]
    /\ UNCHANGED <<flowerVars, currentParams, aliased, sliderValue, isLight, steps, inputs,
                   pairVars>>

\* what switching off leaves in currentParams and the Flower:
\* currentParams[param] = Number(slider.value) for every slider, then
\* flower.updateParams(currentParams)
SwitchOff(cur, p, f, sameObject) ==
    LET synced == [k \in DOMAIN cur |-> IF k \in ParamKeys THEN sliderValue[k] ELSE cur[k]]
        held == IF sameObject THEN synced ELSE p
    IN [currentParams |-> synced, flower |-> updateParams(held, f, config, synced)]

\* the checkbox 'change' listener of _createAutoAnimationToggle, switching off
ToggleAutoOff ==
    /\ isAutoAnimating
    /\ isAutoAnimating' = FALSE
    /\ \E r \in {SwitchOff(currentParams, params, faces, aliased)} :
          /\ currentParams' = r.currentParams
          /\ params' = r.flower.params
          /\ faces' = r.flower.faces
          /\ lastOp' = [op |-> "autoOff", key |-> "", np |-> <<>>,
                        regenCalls |-> r.flower.regenCalls, warned |-> r.flower.warned,
                        threw |-> r.flower.threw, ignored |-> FALSE]
    /\ UNCHANGED <<config, rotationAngle, aliased, sliderValue, animationTime, isLight,
                   steps, inputs, ticks, pairVars>>

\* draw(): updateAnimatedFlowerParams() when auto-animating, then display().
\* An exception out of autoAnimateParams ends the frame there.
DrawFrame(opName, noise) ==
    /\ steps < MaxSteps
    /\ steps' = steps + 1
    /\ UNCHANGED <<config, inputs, pairVars>>
    /\ IF isAutoAnimating
       THEN \E r \in {autoAnimateParams(params, faces, config, noise)} :
               /\ animationTime' = animationTime + PERLIN_NOISE_SPEED
               /\ ticks' = ticks + 1
               /\ params' = r.params
               /\ faces' = r.faces
               /\ lastOp' = [op |-> opName, key |-> "animated", np |-> <<>>,
                             regenCalls |-> r.regenCalls, warned |-> r.warned,
                             threw |-> r.threw, ignored |-> FALSE]
               /\ IF r.threw
                  THEN UNCHANGED <<currentParams, aliased, sliderValue, rotationAngle>>
                  ELSE /\ currentParams' = r.returned
                       /\ aliased' = TRUE
                       /\ sliderValue' = [k \in ParamKeys |-> SliderSanitize(SliderDef(k), r.returned[k])]
                       /\ rotationAngle' = display(rotationAngle, r.params)
       ELSE /\ rotationAngle' = display(rotationAngle, params)
            /\ lastOp' = [op |-> opName, key |-> "manual", np |-> <<>>, regenCalls |-> 0,
                          warned |-> FALSE, threw |-> FALSE, ignored |-> FALSE]
            /\ UNCHANGED <<params, faces, currentParams, aliased, sliderValue, animationTime,
                           ticks>>

\* one frame of the p5 render loop
Draw ==
    /\ \E noise \in (IF isAutoAnimating THEN NoiseFields ELSE {[k \in ParamKeys |-> 0]}) :
          DrawFrame("draw", noise)
    /\ UNCHANGED <<isAutoAnimating, isLight>>

\* toggleTheme() without its call of draw()
ToggleTheme_NoDraw ==
    /\ steps < MaxSteps
    /\ steps' = steps + 1
    /\ isLight' = ~isLight
    /\ lastOp' = [op |-> "toggleTheme", key |-> "", np |-> <<>>, regenCalls |-> 0,
                  warned |-> FALSE, threw |-> FALSE, ignored |-> FALSE]
    /\ UNCHANGED <<flowerVars, currentParams, aliased, sliderValue, isAutoAnimating,
                   animationTime, inputs, ticks, pairVars>>

\* toggleTheme(): flips the theme classes and calls draw()
ToggleTheme ==
    /\ isLight' = ~isLight
    /\ \E noise \in (IF isAutoAnimating THEN NoiseFields ELSE {[k \in ParamKeys |-> 0]}) :
          DrawFrame("toggleTheme", noise)
    /\ UNCHANGED isAutoAnimating

Next ==
    \/ \E k \in SliderKeys : \E v \in SliderChoices(k) : SliderInput(k, v)
    \/ ToggleAutoOn
    \/ ToggleAutoOff
    \/ Draw
    \/ ToggleTheme

Spec == Init /\ [][Next]_vars

----------------------------------------------------------------------------
(* The Flower driven directly through its methods *)

ApiUpdateParams(newParams) ==
    /\ steps < MaxCalls
    /\ steps' = steps + 1
    /\ \E r \in {updateParams(params, faces, config, newParams)} :
          /\ params' = r.params
          /\ faces' = r.faces
          /\ lastOp' = [op |-> "updateParams", key |-> "", np |-> newParams,
                        regenCalls |-> r.regenCalls, warned |-> r.warned,
                        threw |-> r.threw, ignored |-> FALSE]
    /\ UNCHANGED <<config, rotationAngle, uiVars, inputs, ticks, pairVars>>

ApiAutoAnimateParams(noise) ==
    /\ steps < MaxCalls
    /\ steps' = steps + 1
    /\ \E r \in {autoAnimateParams(params, faces, config, noise)} :
          /\ params' = r.params
          /\ faces' = r.faces
          /\ lastOp' = [op |-> "autoAnimateParams", key |-> "", np |-> noise,
                        regenCalls |-> r.regenCalls, warned |-> r.warned,
                        threw |-> r.threw, ignored |-> FALSE, returned |-> r.returned]
    /\ UNCHANGED <<config, rotationAngle, uiVars, inputs, ticks, pairVars>>

ApiDisplay ==
    /\ steps < MaxCalls
    /\ steps' = steps + 1
    /\ rotationAngle' = display(rotationAngle, params)
    /\ lastOp' = [op |-> "display", key |-> "", np |-> <<>>, regenCalls |-> 0,
                  warned |-> FALSE, threw |-> FALSE, ignored |-> FALSE]
    /\ UNCHANGED <<config, params, faces, uiVars, inputs, ticks, pairVars>>

ApiNext ==
    \/ \E newParams \in ApiNewParams : ApiUpdateParams(newParams)
    \/ \E noise \in ApiNoiseFields : ApiAutoAnimateParams(noise)
    \/ ApiDisplay

ApiSpec == Init /\ [][ApiNext]_vars

----------------------------------------------------------------------------
(* The Flower constructed with any grid size *)

\* config objects a caller can pass to new Flower: the grid of the sketch
\* and grids with a zero or negative rows or cols
CtorConfigs ==
    {[rows |-> GridRows, cols |-> GridCols],
     [rows |-> 0, cols |-> GridCols], [rows |-> GridRows, cols |-> 0],
     [rows |-> -1, cols |-> GridCols], [rows |-> GridRows, cols |-> -1]}

\* new Flower(p, config, INITIAL_PARAMS, COLOR_SCHEME) for any of these
CtorInit ==
    /\ config \in CtorConfigs
    /\ LET flower == FlowerConstructor(config, INITIAL_PARAMS)
       IN /\ params = flower.params
          /\ faces = flower.faces
          /\ rotationAngle = flower.rotationAngle
          /\ lastOp = [NoOp EXCEPT !.threw = flower.threw]
    /\ currentParams = INITIAL_PARAMS
    /\ aliased = FALSE
    /\ sliderValue = INITIAL_PARAMS
    /\ isAutoAnimating = FALSE
    /\ animationTime = 0
    /\ isLight = FALSE
    /\ steps = 0
    /\ inputs = 0
    /\ ticks = 0
    /\ params2 = params
    /\ faces2 = faces

CtorSpec == CtorInit /\ [][ApiNext]_vars

----------------------------------------------------------------------------
(* Two Flowers given the same calls, up to the rotationSpeed values *)

\* rotationSpeed values a caller can pass
RotationSpeedVals == {Num(0), Num(5000), NaN}

\* the argument objects that differ from newParams in rotationSpeed at most
Variants(newParams) ==
    IF "rotationSpeed" \in DOMAIN newParams
    THEN {[newParams EXCEPT !.rotationSpeed = v] : v \in RotationSpeedVals}
    ELSE {newParams}

\* updateParams(newParams) on the first Flower, updateParams(newParams2) on
\* the second
PairUpdateParams(newParams, newParams2) ==
    /\ steps < MaxCalls
    /\ steps' = steps + 1
    /\ \E r \in {updateParams(params, faces, config, newParams)} :
          /\ params' = r.params
          /\ faces' = r.faces
          /\ lastOp' = [op |-> "updateParams", key |-> "", np |-> newParams,
                        regenCalls |-> r.regenCalls, warned |-> r.warned,
                        threw |-> r.threw, ignored |-> FALSE]
    /\ \E r2 \in {updateParams(params2, faces2, config, newParams2)} :
          /\ params2' = r2.params
          /\ faces2' = r2.faces
    /\ UNCHANGED <<config, rotationAngle, uiVars, inputs, ticks>>

\* autoAnimateParams(time) on both Flowers: the same time, hence the same noise
PairAutoAnimateParams(noise) ==
    /\ steps < MaxCalls
    /\ steps' = steps + 1
    /\ \E r \in {autoAnimateParams(params, faces, config, noise)} :
          /\ params' = r.params
          /\ faces' = r.faces
          /\ lastOp' = [op |-> "autoAnimateParams", key |-> "", np |-> noise,
                        regenCalls |-> r.regenCalls, warned |-> r.warned,
                        threw |-> r.threw, ignored |-> FALSE, returned |-> r.returned]
    /\ \E r2 \in {autoAnimateParams(params2, faces2, config, noise)} :
          /\ params2' = r2.params
          /\ faces2' = r2.faces
    /\ UNCHANGED <<config, rotationAngle, uiVars, inputs, ticks>>

PairNext ==
    \/ \E newParams \in ApiNewParams : \E newParams2 \in Variants(newParams) :
          PairUpdateParams(newParams, newParams2)
    \/ \E noise \in NoiseFields : PairAutoAnimateParams(noise)

PairSpec == Init /\ [][PairNext]_vars

\* ---- _getBlendedColor on the palette of any colour scheme ----

\* colour schemes passed to new Flower(p, config, initialParams, colorScheme):
\* AppConfig.COLOR_SCHEME, its first two colours (equal red), black and
\* white, and two colours that differ in blue only
ColorSchemes ==
    { COLOR_SCHEME,
      << <<15, 15, 13, 2, 0, 0>>, <<15, 15, 7, 1, 9, 2>> >>,
      << <<0, 0, 0, 0, 0, 0>>, <<15, 15, 15, 15, 15, 15>> >>,
      << <<15, 15, 0, 0, 6, 6>>, <<15, 15, 0, 0, 6, 5>> >> }

\* faceInfo.normalizedRadius, in thousandths (a caller may pass more than 1)
RadiusFactors == {0, 500, 1000, 1500}

\* flower._getBlendedColor(faceInfo) on a Flower constructed with colorScheme
ApplyBlend(colorScheme, radiusFactor, depthFactor) ==
    /\ steps < MaxCalls
    /\ steps' = steps + 1
    /\ \E color \in {BlendedColorOf(PaletteOf(colorScheme), radiusFactor, depthFactor)} :
          lastOp' = [op |-> "_getBlendedColor", key |-> "", np |-> <<>>,
                     regenCalls |-> 0, warned |-> FALSE, threw |-> FALSE,
                     ignored |-> FALSE,
                     palette |-> PaletteOf(colorScheme),
                     radiusFactor |-> radiusFactor, depthFactor |-> depthFactor,
                     colorPosition |->
                         Constrain(Num(ColorPosition(radiusFactor, depthFactor)),
                                   0, 1000).n,
                     color |-> color]
    /\ UNCHANGED <<flowerVars, uiVars, inputs, ticks, pairVars>>

BlendNext ==
    \E colorScheme \in ColorSchemes : \E radiusFactor \in RadiusFactors :
        \E depthFactor \in DepthFactors :
            ApplyBlend(colorScheme, radiusFactor, depthFactor)

BlendSpec == Init /\ [][BlendNext]_vars

----------------------------------------------------------------------------
(* Properties *)

FaceCount == 2 * config.rows * config.cols

\* the step is a call of Flower.updateParams
IsUpdateParams == steps' = steps + 1 /\ lastOp'.op = "updateParams"
\* the step is a call of Flower.updateParams or Flower.autoAnimateParams
IsParamCall == steps' = steps + 1 /\ lastOp'.op \in {"updateParams", "autoAnimateParams"}
\* the keys of the argument of the call that the parameters have
GivenKeys == DOMAIN lastOp'.np \cap DOMAIN params

\* C1: right after auto-animation is switched off, the Flower's parameters
\* are the values the sliders show and the face list is the mesh of those
\* values, however many animated frames were drawn before.
C1_OffShowsSliderMesh ==
    lastOp.op = "autoOff" =>
        /\ \A k \in ParamKeys : params[k] = sliderValue[k]
        /\ faces = Mesh(sliderValue, config)

\* C2: with auto-animation off, a slider input that gives a shape parameter a
\* value other than the one the Flower held rebuilds the mesh with the new value.
C2_SliderInputRebuilds ==
    [][(/\ inputs' = inputs + 1
        /\ ~isAutoAnimating
        /\ lastOp'.key # "rotationSpeed"
        /\ params[lastOp'.key] # sliderValue'[lastOp'.key])
       => (/\ params'[lastOp'.key] = sliderValue'[lastOp'.key]
           /\ lastOp'.regenCalls = 1
           /\ faces' = Mesh(params', config))]_vars

\* C3: updateParams copies every given key (of those the parameters have)
\* whose value differs, leaves the other parameters alone, and calls
\* regenerateGeometry exactly once if a changed key is not rotationSpeed,
\* however many keys changed; a regeneration that completes leaves the mesh
\* of the merged parameters.
C3_UpdateParamsMerges ==
    [][IsUpdateParams =>
        LET np == lastOp'.np
            changed == {k \in GivenKeys : np[k] # params[k]}
        IN /\ DOMAIN params' = DOMAIN params
           /\ \A k \in changed : params'[k] = np[k]
           /\ \A k \in DOMAIN params \ changed : params'[k] = params[k]
           /\ (\E k \in changed : k # "rotationSpeed") => lastOp'.regenCalls = 1
           /\ lastOp'.regenCalls <= 1
           /\ (lastOp'.regenCalls = 1 /\ ~lastOp'.warned /\ ~lastOp'.threw)
                 => faces' = Mesh(params', config)]_vars

\* a call that changed two shape keys and regenerated once
C3_Witness ==
    /\ lastOp.op = "updateParams"
    /\ DOMAIN lastOp.np = {"curve1", "curve2"}
    /\ lastOp.regenCalls = 1
    /\ params.curve1 = Num(0) /\ params.curve2 = Num(15000)
    /\ faces = Mesh(params, config)

\* C4: an updateParams call in which no key but rotationSpeed differs from
\* the current value calls no regeneration and leaves the face list as it was.
C4_RotationSpeedKeepsFaces ==
    [][(/\ IsUpdateParams
        /\ "rotationSpeed" \in GivenKeys
        /\ lastOp'.np.rotationSpeed # params.rotationSpeed
        /\ \A k \in GivenKeys \ {"rotationSpeed"} : ~StrictNotEqual(params[k], lastOp'.np[k]))
       => (faces' = faces /\ lastOp'.regenCalls = 0)]_vars

\* rotationSpeed was changed, together with an unchanged opening, on a
\* Flower whose opening had been changed before
C4_Witness ==
    /\ lastOp.op = "updateParams"
    /\ DOMAIN lastOp.np = {"rotationSpeed", "opening"}
    /\ lastOp.regenCalls = 0
    /\ params.rotationSpeed = Num(5000)
    /\ steps >= 2

\* C5: an updateParams call whose keys all carry the value the parameter
\* already has calls no regeneration and changes neither parameters nor faces.
C5_SameValueIsNoOp ==
    [][(/\ IsUpdateParams
        /\ \A k \in GivenKeys : lastOp'.np[k] = params[k])
       => (lastOp'.regenCalls = 0 /\ params' = params /\ faces' = faces)]_vars

\* C6: the face list always has 2 x rows x cols entries.
C6_FaceCountConstant == Len(faces) = FaceCount

\* C7: a regeneration requested while a parameter is NaN leaves the face
\* list as it was, logs a warning and throws nothing.
C7_NaNAbortsRegeneration ==
    [][(/\ IsParamCall
        /\ lastOp'.regenCalls >= 1
        /\ \E k \in DOMAIN params' : IsNaNValue(params'[k]))
       => (faces' = faces /\ lastOp'.warned /\ ~lastOp'.threw)]_vars

\* updateParams stored NaN, the regeneration it asked for was aborted and
\* the full mesh is still there
C7_Witness ==
    /\ lastOp.op = "updateParams"
    /\ lastOp.regenCalls = 1
    /\ lastOp.warned
    /\ IsNaNValue(params.opening)
    /\ Len(faces) = FaceCount

\* C8: a regeneration requested while a parameter is not a finite number
\* (NaN, +Infinity or -Infinity) leaves the face list as it was.
C8_NonFiniteSkipsRegeneration ==
    [][(/\ IsParamCall
        /\ lastOp'.regenCalls >= 1
        /\ \E k \in DOMAIN params' : ~IsNum(params'[k]))
       => faces' = faces]_vars

\* C9: after autoAnimateParams every parameter of the slider table is a
\* number within [min, max] of its slider definition.
C9_AnimatedParamsInRange ==
    lastOp.op = "autoAnimateParams" =>
        \A k \in ParamKeys :
            /\ IsNum(params[k])
            /\ SliderDef(k).min <= params[k].n
            /\ params[k].n <= SliderDef(k).max

\* C10: while auto-animating a slider input changes neither currentParams
\* nor the Flower's parameters nor the face list, and while not
\* auto-animating a frame does not call autoAnimateParams.
C10_ManualXorAutomatic ==
    [][/\ (inputs' = inputs + 1 /\ isAutoAnimating)
           => (currentParams' = currentParams /\ params' = params /\ faces' = faces)
       /\ (steps' = steps + 1 /\ ~isAutoAnimating)
           => (/\ lastOp'.key = "manual"
               /\ params' = params /\ faces' = faces
               /\ currentParams' = currentParams
               /\ animationTime' = animationTime)]_vars

\* a slider input arrived while auto-animating, after an animated frame
C10_Witness ==
    /\ lastOp.op = "sliderInput"
    /\ lastOp.ignored
    /\ isAutoAnimating
    /\ animationTime > 0

\* C11: switching auto-animation on sets animationTime to 0, and every
\* animated frame adds PERLIN_NOISE_SPEED to it before it calls
\* autoAnimateParams(animationTime): the k-th call since the last switch-on
\* gets k x PERLIN_NOISE_SPEED, whatever earlier sessions left behind.
C11_TimeIsTicksSinceEnable ==
    [][/\ (~isAutoAnimating /\ isAutoAnimating') => animationTime' = 0
       /\ (steps' = steps + 1 /\ lastOp'.key = "animated")
             => (/\ animationTime' = animationTime + PERLIN_NOISE_SPEED
                 /\ animationTime' = ticks' * PERLIN_NOISE_SPEED)]_vars

\* the first animated frame of a second session: density has been animated
\* twice, the time passed is one step
C11_Witness ==
    /\ lastOp.key = "animated"
    /\ ticks = 1
    /\ steps = 2
    /\ animationTime = PERLIN_NOISE_SPEED
    /\ \A n \in NoiseVals : params.density # AnimatedValue(INITIAL_PARAMS, "density", n)

\* the step is a call of Flower.display
IsDisplay == steps' = steps + 1 /\ lastOp'.op = "display"

\* C12: updateParams and autoAnimateParams, with the regeneration they may
\* run, leave rotationAngle as it was; display() adds rotationSpeed x 0.02
\* to it, which is nothing when rotationSpeed is 0 and NaN when either is NaN.
C12_RotationOnlyInDisplay ==
    [][/\ IsParamCall => rotationAngle' = rotationAngle
       /\ IsDisplay =>
             CASE params.rotationSpeed = Num(0) -> rotationAngle' = rotationAngle
               [] IsNum(params.rotationSpeed) /\ IsNum(rotationAngle) ->
                     rotationAngle' = Num(rotationAngle.n + ROTATION_FACTOR * params.rotationSpeed.n)
               [] OTHER -> ~IsNum(rotationAngle')]_vars

\* two display() calls at rotationSpeed 0.5 after the call that set it
C12_Witness ==
    /\ lastOp.op = "display"
    /\ params.rotationSpeed = Num(5000)
    /\ rotationAngle = Num(2 * ROTATION_FACTOR * 5000)

\* C13: two Flowers given the same sequence of updateParams and
\* autoAnimateParams calls, the rotationSpeed values passed being the only
\* difference, have the same face list after every call.
C13_FacesIgnoreRotationSpeed == faces2 = faces

\* C14: the face list a display() call reads is the complete result of one
\* regeneration, never a partly built or emptied list.
C14_DisplayReadsCompleteMesh ==
    [][IsDisplay => IsCompleteMesh(faces, config)]_vars

\* C15: every face of the face list has a colour whose r, g and b lie in
\* [0, 1], whatever the depth of the face.
C15_ColorsInUnitRange ==
    \A i \in 1..Len(faces) : \A c \in ColorValues(faces[i].color, config) :
        /\ 0 <= c.r /\ c.r <= ColorUnit
        /\ 0 <= c.g /\ c.g <= ColorUnit
        /\ 0 <= c.b /\ c.b <= ColorUnit

\* a regenerated mesh with a face whose colour is a proper blend of two
\* palette colours
C15_Witness ==
    /\ lastOp.op = "updateParams"
    /\ lastOp.regenCalls = 1
    /\ IsCompleteMesh(faces, config)
    /\ \E i \in 1..Len(faces) : \E c \in ColorValues(faces[i].color, config) :
          \A j \in 1..Len(palette) : c # palette[j]

\* the vertex positions of a face list, face by face
VertexPositions(f) == [i \in 1..Len(f) |-> <<f[i].v1, f[i].v2, f[i].v3>>]

\* C16: updateParams({opening: x}) with x other than the current opening
\* alters at least one vertex position of the face list; stated here for
\* the calls where x and the five shape parameters are finite numbers and
\* the face list is a complete mesh.
C16_OpeningChangeMovesVertex ==
    [][(/\ IsUpdateParams
        /\ DOMAIN lastOp'.np = {"opening"}
        /\ lastOp'.np.opening # params.opening
        /\ IsNum(lastOp'.np.opening)
        /\ \A k \in ParamKeys \ {"rotationSpeed"} : IsNum(params[k])
        /\ IsCompleteMesh(faces, config))
       => VertexPositions(faces') # VertexPositions(faces)]_vars

\* C17: a Flower whose config has a zero or negative rows or cols is not
\* constructed: the constructor fails with an error.
C17_BadConfigFailsConstruction ==
    (lastOp.op = "construct" /\ (config.rows <= 0 \/ config.cols <= 0)) => lastOp.threw

\* C18: after construction and after every slider input, switch-on,
\* switch-off and frame, UIManager.currentParams and Flower.params hold the
\* same value for each of the six parameters.
C18_CurrentParamsMirrorFlower ==
    \A k \in ParamKeys : currentParams[k] = params[k]

\* a slider input that was applied after an animated frame and a switch-off
C18_Witness ==
    /\ lastOp.op = "sliderInput"
    /\ ~lastOp.ignored
    /\ aliased
    /\ currentParams.opening = Num(13000)
    /\ params.opening = Num(13000)

\* the step is a call of Flower.autoAnimateParams
IsAutoAnimate == steps' = steps + 1 /\ lastOp'.op = "autoAnimateParams"
ShapeKeys == ParamKeys \ {"rotationSpeed"}
\* |a - b| > 0.0001 on numbers; false when the difference is NaN
MovedBeyondEpsilon(a, b) == IsNum(a) /\ IsNum(b) /\ Abs(a.n - b.n) > REGEN_EPSILON

\* C19: autoAnimateParams calls regenerateGeometry if and only if some
\* parameter other than rotationSpeed differs from its value before the call
\* by more than 0.0001, and never more than once; a change of rotationSpeed
\* alone calls none.
C19_RegenerationIffShapeMoved ==
    [][IsAutoAnimate =>
        /\ lastOp'.regenCalls <= 1
        /\ lastOp'.regenCalls = 1
              <=> \E k \in ShapeKeys : MovedBeyondEpsilon(params[k], params'[k])]_vars

\* a call that moved rotationSpeed by 0.0002 and no shape parameter, and
\* regenerated nothing
C19_Witness ==
    /\ lastOp.op = "autoAnimateParams"
    /\ lastOp.regenCalls = 0
    /\ params.rotationSpeed = Num(98)
    /\ \A k \in ShapeKeys : IsNum(params[k])
    /\ IsCompleteMesh(faces, config)

\* C20: a call of autoAnimateParams in which every shape parameter moves by
\* at most 0.0001 stores the new values and leaves the face list alone,
\* however far the parameters already are from the values the face list was
\* generated from.
C20_SmallStepsNeverRegenerate ==
    [][(IsAutoAnimate /\ \A k \in ShapeKeys : ~MovedBeyondEpsilon(params[k], params'[k]))
       => (/\ lastOp'.regenCalls = 0
           /\ faces' = faces
           /\ \A k \in ParamKeys : params'[k] = AnimatedValue(params, k, lastOp'.np[k]))]_vars

\* after two such calls opening is 0.0002 away from the opening the face
\* list was generated from
C20_Witness ==
    /\ lastOp.op = "autoAnimateParams"
    /\ lastOp.regenCalls = 0
    /\ IsCompleteMesh(faces, config)
    /\ \A k \in ShapeKeys : IsNum(params[k])
    /\ Abs(params.opening.n - MeshSource(faces).opening.n) > REGEN_EPSILON

\* C21: updateParams stores a NaN it is given although the regeneration it
\* asks for is refused; while any parameter, rotationSpeed included, is NaN
\* after an updateParams call, the call leaves the face list as it was; and
\* once no parameter is NaN a requested regeneration is no longer refused.
C21_NaNStoredWithoutRollback ==
    [][IsUpdateParams =>
        /\ \A k \in GivenKeys : IsNaNValue(lastOp'.np[k]) => IsNaNValue(params'[k])
        /\ (\E k \in DOMAIN params' : IsNaNValue(params'[k])) => faces' = faces
        /\ (lastOp'.regenCalls = 1 /\ \A k \in DOMAIN params' : ~IsNaNValue(params'[k]))
              => ~lastOp'.warned]_vars

\* opening is NaN from an earlier call; this call changed align, stored it,
\* and the face list is still the mesh of the initial parameters
C21_Witness ==
    /\ lastOp.op = "updateParams"
    /\ DOMAIN lastOp.np = {"align"}
    /\ lastOp.warned
    /\ IsNaNValue(params.opening)
    /\ params.align = Num(0)
    /\ faces = Mesh(INITIAL_PARAMS, config)

\* C22: every new value of autoAnimateParams is computed from the value that
\* parameter had before the call and from nothing else, the parameters keep
\* their keys, and the object returned holds exactly the values the Flower
\* holds after the call.
C22_AnimateIsAtomic ==
    [][IsAutoAnimate =>
        /\ DOMAIN params' = DOMAIN params
        /\ \A k \in ParamKeys :
              params'[k] = AnimatedValue([INITIAL_PARAMS EXCEPT ![k] = params[k]], k, lastOp'.np[k])
        /\ ~lastOp'.threw =>
              /\ lastOp'.returned = params'
              /\ ParamKeys \subseteq DOMAIN lastOp'.returned]_vars

\* a second call, with a different noise value per parameter, that
\* regenerated and returned
C22_Witness ==
    /\ lastOp.op = "autoAnimateParams"
    /\ lastOp.np.opening # lastOp.np.density
    /\ lastOp.regenCalls = 1
    /\ ~lastOp.threw
    /\ lastOp.returned = params
    /\ steps >= 2

\* C23: one autoAnimateParams call gives each parameter that is a number the
\* value clamp(current + LERP_FACTOR x (target - current), min, max) with
\* target = min + noiseVal x (max - min); from opening 0.8 with target 1.0
\* the new opening is 0.804.
C23_LerpTowardsTarget ==
    [][IsAutoAnimate =>
        /\ \A k \in ParamKeys : IsNum(params[k]) =>
              LET def == SliderDef(k)
                  target == def.min + RoundDiv(lastOp'.np[k] * (def.max - def.min), 1000)
                  moved == params[k].n + RoundDiv(LERP_FACTOR * (target - params[k].n), 100)
              IN params'[k] = Num(IF moved > def.max THEN def.max
                                  ELSE IF moved < def.min THEN def.min ELSE moved)
        /\ (params.opening = Num(8000) /\ lastOp'.np.opening = 625)
              => params'.opening = Num(8040)]_vars

\* the call with noise 0.625 for opening on the initial parameters
C23_Witness ==
    /\ lastOp.op = "autoAnimateParams"
    /\ lastOp.np.opening = 625
    /\ steps = 1
    /\ params.opening = Num(8040)

\* C24: rotationAngle never decreases, whatever slider inputs and animated
\* frames change rotationSpeed between the display() calls.
C24_RotationNeverDecreases ==
    [][rotationAngle'.n >= rotationAngle.n]_vars

\* C24, amended: rotationAngle changes in frames only and follows the sign
\* of rotationSpeed: it does not decrease in a frame displayed with
\* rotationSpeed >= 0 and does not increase in one displayed with
\* rotationSpeed <= 0.
C24_RotationFollowsSign ==
    [][/\ (steps' = steps + 1 /\ params'.rotationSpeed.n >= 0)
            => rotationAngle'.n >= rotationAngle.n
       /\ (steps' = steps + 1 /\ params'.rotationSpeed.n <= 0)
            => rotationAngle'.n <= rotationAngle.n
       /\ steps' = steps => rotationAngle' = rotationAngle]_vars

\* a frame displayed with a negative rotationSpeed took rotationAngle below 0
C24_Witness ==
    /\ lastOp.key \in {"manual", "animated"}
    /\ params.rotationSpeed.n < 0
    /\ rotationAngle.n < 0

\* C25: after a regeneration that completed, the face list has 2 x rows x
\* cols faces and, for every cell (r, t) in row-major order, holds at index
\* 2(r x cols + t) the triangle (grid[r][t], grid[r][t+1], grid[r+1][t]) and
\* at the next index (grid[r][t+1], grid[r+1][t+1], grid[r+1][t]).
C25_TriangulationOrder ==
    (lastOp.regenCalls = 1 /\ ~lastOp.warned /\ ~lastOp.threw) =>
        LET grid == VerticesGrid(params, config)
            rows == config.rows
            cols == config.cols
        IN /\ Len(faces) = 2 * rows * cols
           /\ \A r \in 0..(rows - 1) : \A t \in 0..(cols - 1) :
                 LET a == faces[2 * (r * cols + t) + 1]
                     b == faces[2 * (r * cols + t) + 2]
                 IN /\ <<a.v1, a.v2, a.v3>> = <<grid[r][t], grid[r][t + 1], grid[r + 1][t]>>
                    /\ <<b.v1, b.v2, b.v3>>
                          = <<grid[r][t + 1], grid[r + 1][t + 1], grid[r + 1][t]>>

\* the mesh regenerated by updateParams for opening 1.3
C25_Witness ==
    /\ lastOp.op = "updateParams"
    /\ lastOp.regenCalls = 1
    /\ ~lastOp.warned /\ ~lastOp.threw
    /\ params.opening = Num(13000)
    /\ Len(faces) = FaceCount
    /\ faces[Len(faces)].v2 = VerticesGrid(params, config)[config.rows][config.cols]

\* C26: vertices are copied into each face: no vertex object is held by two
\* different faces of the face list.  (regenerateGeometry pushes v1, v2, v3, v4
\* themselves, the objects of verticesGrid, so the two triangles of one cell
\* hold the same top-right and bottom-left objects and neighbouring cells
\* share their common corners.)
FaceSlots == {"v1", "v2", "v3"}

C26_NoVertexSharedBetweenFaces ==
    \A i \in 1..Len(faces) : \A j \in 1..Len(faces) :
        (i # j) => \A s \in FaceSlots : \A t \in FaceSlots :
                      faces[i][s].obj # faces[j][t].obj

\* C27: on a palette of exactly two colours, colour position 0 gives exactly
\* palette[0]; colour position 1 is clamped to 0.999, so the result is the
\* blend of palette[0] and palette[1] by the factor 0.999 and is not
\* palette[1].  (Sequences count from 1: palette[0] is lastOp.palette[1].)
C27_TwoColorEndpoints ==
    (/\ lastOp.op = "_getBlendedColor"
     /\ Len(lastOp.palette) = 2
     /\ lastOp.palette[1] # lastOp.palette[2]) =>
        LET c1 == lastOp.palette[1]
            c2 == lastOp.palette[2]
        IN /\ lastOp.colorPosition = 0 => lastOp.color = c1
           /\ lastOp.colorPosition = 1000 =>
                 /\ lastOp.color # c2
                 /\ 1000 * (lastOp.color.r - c1.r) = 999 * (c2.r - c1.r)
                 /\ 1000 * (lastOp.color.g - c1.g) = 999 * (c2.g - c1.g)
                 /\ 1000 * (lastOp.color.b - c1.b) = 999 * (c2.b - c1.b)

\* colour position 1 on the two colours that differ in blue only
C27_Witness ==
    /\ lastOp.op = "_getBlendedColor"
    /\ Len(lastOp.palette) = 2
    /\ lastOp.colorPosition = 1000
    /\ lastOp.palette[1].r = lastOp.palette[2].r
    /\ lastOp.palette[1].g = lastOp.palette[2].g
    /\ lastOp.color.b = lastOp.palette[2].b + 1

\* C28: a theme toggle is one complete frame: when auto-animating,
\* animationTime advances by one PERLIN_NOISE_SPEED step and the parameters
\* become those of one autoAnimateParams call; in every case rotationAngle
\* advances by rotationSpeed x 0.02 (the rotationSpeed display() reads).
C28_ThemeToggleIsOneFrame ==
    [][(isLight' # isLight) =>
          /\ steps' = steps + 1
          /\ isAutoAnimating =>
                /\ animationTime' = animationTime + PERLIN_NOISE_SPEED
                /\ ticks' = ticks + 1
                /\ \E noise \in NoiseFields :
                      LET r == autoAnimateParams(params, faces, config, noise)
                      IN params' = r.params /\ faces' = r.faces
          /\ ~isAutoAnimating => UNCHANGED <<params, faces, animationTime>>
          /\ IsNum(rotationAngle') /\ IsNum(params'.rotationSpeed)
          /\ rotationAngle'.n = rotationAngle.n + ROTATION_FACTOR * params'.rotationSpeed.n
      ]_vars

\* a theme toggle while auto-animating that moved the parameters and turned
\* the flower
C28_Witness ==
    /\ lastOp.op = "toggleTheme"
    /\ lastOp.key = "animated"
    /\ isLight
    /\ params # INITIAL_PARAMS
    /\ rotationAngle # Num(0)

\* C29: switching auto-animation on changes no Flower state (params, faces,
\* rotationAngle) and nothing of the UIManager but isAutoAnimating and
\* animationTime, which restarts at 0.
C29_SwitchOnLeavesFlower ==
    [][(~isAutoAnimating /\ isAutoAnimating') =>
          /\ UNCHANGED <<params, faces, rotationAngle>>
          /\ UNCHANGED <<currentParams, aliased, sliderValue, isLight>>
          /\ animationTime' = 0
      ]_vars

\* switched on (again) after an animated frame moved the parameters and
\* turned the flower
C29_Witness ==
    /\ lastOp.op = "autoOn"
    /\ isAutoAnimating
    /\ aliased
    /\ params # INITIAL_PARAMS
    /\ rotationAngle # Num(0)

\* C30: the parameters always have exactly the six keys of INITIAL_PARAMS;
\* a key of newParams that the parameters do not have is not stored.
C30_ParamKeysConstant ==
    /\ DOMAIN params = ParamKeys
    /\ ParamKeys = {"opening", "density", "align", "curve1", "curve2", "rotationSpeed"}

\* updateParams({ petals: 5, curve1: 0 }) stored curve1 and regenerated
C30_Witness ==
    /\ lastOp.op = "updateParams"
    /\ "petals" \in DOMAIN lastOp.np
    /\ lastOp.regenCalls = 1
    /\ params.curve1 = Num(0)

====
